---- MODULE Spec2Model ----
(***************************************************************************)
(* Model of the TangoApp Bluetooth-Mesh provisioner core:                  *)
(*   - core/layers/gprov.py           generic provisioning layer (GProv)   *)
(*   - core/provisioning.py           provisioning state machine           *)
(*   - client/mesh_layers/network_layer.py   network layer                 *)
(* Three specifications share the module: GProvSpec, ProvSpec and NetSpec. *)
(* Each drives one layer and leaves the others unchanged.                  *)
(***************************************************************************)
EXTENDS Integers, Sequences, FiniteSets, TLC

VARIABLES
    \* ---- GProv layer (core/layers/gprov.py) ----
    g_pc,               \* position of the thread running GProvLayer.send
    g_content,          \* the payload handed to send
    g_segs,             \* continuation_segments returned by __send_start_tr
    g_bearer,           \* frames put on the bearer by pb_adv_layer.send, in order
    ack_recv_event,     \* GProvLayer.__ack_recv_event (threading.Event)
    ack_timeout_event,  \* GProvLayer.__ack_timeout_event (threading.Event)
    g_watchers,         \* live __check_tr_ack threads, each with its locals
                        \* and the number (tr) of the send call that started it
    g_inbound,          \* frames waiting at pb_adv_layer.recv for the watcher
    clock,              \* half seconds elapsed since the model started
    g_tr,               \* record of the current/last transaction (times, result)
    g_sends,            \* number of send calls made so far
    g_rx_pos,           \* frames of g_bearer already handed to the peer's recv
    g_rx_out,           \* values returned by the peer's GProvLayer.recv, in order
    g_rx_acks,          \* ACKNOWLEDGMENT frames the peer's layer put on the bearer
    \* ---- Provisioning layer (core/provisioning.py) ----
    dev,                \* the simulated device: what it answers, which transaction it leaves out
    p_pc,               \* position in provisioning_device
    p_st,               \* the layer's fields, the transactions so far, the pending exception
    p_entry,            \* p_st as it was when the phase now running was entered
    p_result,           \* how provisioning_device ended
    \* ---- Network layer (client/mesh_layers/network_layer.py) ----
    n_nets,             \* the network records of the store, in the order list_files gives
    hard_ctx,           \* NetworkLayer.hard_ctx
    send_queue,         \* NetworkLayer.send_queue
    recv_queue,         \* NetworkLayer.recv_queue
    transport_pdus,     \* NetworkLayer.transport_pdus
    n_calls,            \* the send_pdu calls made so far: arguments and outcome
    n_last,             \* the last frame the recv_pdu loop took and what it did with it
    n_loop,             \* "running", or the exception that ended the recv_pdu task
    n_in                \* number of frames put on recv_queue so far

gvars == << g_pc, g_content, g_segs, g_bearer, ack_recv_event, ack_timeout_event,
            g_watchers, g_inbound, clock, g_tr, g_sends, g_rx_pos, g_rx_out,
            g_rx_acks >>

pvars == << dev, p_pc, p_st, p_entry, p_result >>

nvars == << n_nets, hard_ctx, send_queue, recv_queue, transport_pdus, n_calls,
            n_last, n_loop, n_in >>

vars == << gvars, pvars, nvars >>

----------------------------------------------------------------------------
\* Bounds of the model

\* longest payload handed to GProvLayer.send (20 + 23 + 23 + 1 bytes: four frames)
MaxPayloadLen == 67
\* number of send calls made on one GProvLayer
MaxSends == 2
\* number of send_pdu calls
MaxNetSends == 2
\* number of frames put on the inbound queue
MaxInbound == 2
\* half seconds the clock may advance while the layer is idle or blocked
MaxClock == 3

----------------------------------------------------------------------------
\* Constants of core/layers/gprov.py

LINK_OPEN == 0
LINK_ACK == 1
LINK_CLOSE == 2

START == 0
ACKNOWLEDGMENT == 1
CONTINUATION == 2
BEARER_CONTROL == 3
MAX_MTU_SIZE == 24

\* 30 seconds, the limit of the ACK watcher loop, in half seconds
AckLimit == 60
\* 35 seconds, the timeout of __ack_timeout_event.wait, in half seconds
WaitLimit == 70
\* pb_adv_layer.recv(1, 0.5): one poll of 0.5 seconds, in half seconds
PollTime == 1
\* time() when the model starts: seconds since 1970, counted in half seconds
EpochAtStart == 2000000000

time(c) == EpochAtStart + c

----------------------------------------------------------------------------
\* Buffer (core.buffer): big-endian byte container

\* pull_be(n): the first n bytes; fails when fewer than n bytes remain
pull_be(buf, n) ==
    IF Len(buf) < n
    THEN [ok |-> FALSE, data |-> << >>, rest |-> buf]
    ELSE [ok |-> TRUE, data |-> SubSeq(buf, 1, n), rest |-> SubSeq(buf, n + 1, Len(buf))]

\* The result of a step that may raise: the exception or "none", and the value
Raised(exc) == [exc |-> exc, val |-> << >>]
Returned(val) == [exc |-> "none", val |-> val]

\* push_be16(v): two bytes, most significant first
push_be16(v) == << (v \div 256) % 256, v % 256 >>

\* pull_be16 of the first two bytes of buf
pull_be16(buf) == buf[1] * 256 + buf[2]

\* The payloads the model hands to send: L bytes, byte i determined by i
Payload(L) == [i \in 1..L |-> (i * 7 + 3) % 256]

----------------------------------------------------------------------------
\* GProvLayer: segmentation

\* __fcs: not implemented, returns 0
fcs(buf) == 0

\* The loop of __send_start_tr over what is left after the start segment:
\* chunks of MAX_MTU_SIZE - 1 while more than that remains, then pull_all_be,
\* appended whatever its length
RECURSIVE continuation_segments(_)
continuation_segments(buf) ==
    IF Len(buf) > MAX_MTU_SIZE - 1
    THEN << SubSeq(buf, 1, MAX_MTU_SIZE - 1) >>
         \o continuation_segments(SubSeq(buf, MAX_MTU_SIZE, Len(buf)))
    ELSE << buf >>

\* A variant of the START frame whose seg_n counts the START frame too
start_frame_counting_start(seg_n, total_length, fcs_, start_content) ==
    << ((seg_n + 1) % 64) * 4 >> \o push_be16(total_length) \o << fcs_ >> \o start_content

\* The START frame __send_start_tr builds: (seg_n & 0x3f) << 2, total_length
\* (be16), fcs, start content
start_frame(seg_n, total_length, fcs_, start_content) ==
    << (seg_n % 64) * 4 >> \o push_be16(total_length) \o << fcs_ >> \o start_content

\* __send_start_tr(link, buffer): [ok, frame, segs]
send_start_tr(content) ==
    LET total_length == Len(content)
        fcs_ == fcs(content)
        p == pull_be(content, MAX_MTU_SIZE - 4)
    IN  IF ~p.ok
        THEN [ok |-> FALSE, frame |-> << >>, segs |-> << >>]
        ELSE LET segs == continuation_segments(p.rest)
                 seg_n == Len(segs)
             IN  [ok |-> TRUE,
                  frame |-> start_frame(seg_n, total_length, fcs_, p.data),
                  segs |-> segs]

\* A variant of the CONTINUATION frame whose seg_index is x, counted from 0
continuation_frame_from_zero(x, seg) == << (x % 64) * 4 + 2 >> \o seg

\* One CONTINUATION frame of __send_continuation_tr, x counted from 0:
\* (x+1 & 0x3f) << 2 | 0b10, then the segment
continuation_frame(x, seg) == << ((x + 1) % 64) * 4 + 2 >> \o seg

\* __send_continuation_tr(link, continuation_segments): the frames, in order
send_continuation_tr(segs) == [x \in 1..Len(segs) |-> continuation_frame(x - 1, segs[x])]

----------------------------------------------------------------------------
\* GProvLayer: decoding

\* A decoder's record: the class of the message or of the exception raised,
\* seg_n / seg_index / op_code as index, total_length, content
Decoded(kind, index, total_length, content) ==
    [kind |-> kind, index |-> index, total_length |-> total_length, content |-> content]

\* The exceptions of the decoders: a pull from a Buffer that is too short, and
\* the Exception the decoders raise themselves
DecodeErrors == {"BufferError", "Exception"}

\* An int, where the code has one in the place of bytes or of an object
IntValue(n) == [class |-> "int", val |-> n]

\* decode_msg_start: seg_n, total_length, fcs (three pulls of 1, 2 and 1
\* bytes) and the rest as content
decode_msg_start(frame) ==
    IF Len(frame) < 4 THEN Decoded("BufferError", 0, 0, << >>)
    ELSE Decoded("GProvStart", frame[1] \div 4, pull_be16(SubSeq(frame, 2, 3)),
                 SubSeq(frame, 5, Len(frame)))

\* decode_msg_continuation: seg_index and the rest as content
decode_msg_continuation(frame) ==
    IF Len(frame) < 1 THEN Decoded("BufferError", 0, 0, << >>)
    ELSE Decoded("GProvContinuation", frame[1] \div 4, 0, SubSeq(frame, 2, Len(frame)))

\* decode_msg_ack: padding must be zero
decode_msg_ack(frame) ==
    IF Len(frame) < 1 THEN Decoded("BufferError", 0, 0, << >>)
    ELSE IF frame[1] \div 4 # 0 THEN Decoded("Exception", 0, 0, << >>)
    ELSE Decoded("GProvAck", 0, 0, << >>)

\* decode_msg_bearer_control: the content is the rest of the frame (uuid) for
\* LINK_OPEN, one more byte pulled, as an int (close_reason), for LINK_CLOSE,
\* b'' for LINK_ACK; another op code raises
decode_msg_bearer_control(frame) ==
    IF Len(frame) < 1 THEN Decoded("BufferError", 0, 0, << >>)
    ELSE LET op_code == frame[1] \div 4
         IN  CASE op_code = LINK_OPEN ->
                    Decoded("GProvBearerControl", op_code, 0, SubSeq(frame, 2, Len(frame)))
               [] op_code = LINK_CLOSE ->
                    IF Len(frame) < 2 THEN Decoded("BufferError", op_code, 0, << >>)
                    ELSE Decoded("GProvBearerControl", op_code, 0, IntValue(frame[2]))
               [] op_code = LINK_ACK ->
                    Decoded("GProvBearerControl", op_code, 0, << >>)
               [] OTHER -> Decoded("Exception", op_code, 0, << >>)

\* decode_gprov_message: GProvData(type_, msg_params); class is the exception
\* when seek(0) finds no byte or the decoder of the type raised
decode_gprov_message(frame) ==
    IF frame = << >>
    THEN [class |-> "BufferError", type_ |-> 0,
          msg_params |-> Decoded("BufferError", 0, 0, << >>)]
    ELSE LET type_ == frame[1] % 4
             func_output ==
                CASE type_ = START -> decode_msg_start(frame)
                  [] type_ = ACKNOWLEDGMENT -> decode_msg_ack(frame)
                  [] type_ = CONTINUATION -> decode_msg_continuation(frame)
                  [] OTHER -> decode_msg_bearer_control(frame)
         IN  [class |-> IF func_output.kind \in DecodeErrors THEN func_output.kind
                        ELSE "GProvData",
              type_ |-> type_,
              msg_params |-> func_output]

\* GProvLayer.recv: one frame from the 'prov' channel, decoded; returns the
\* content of that frame's message, or raises what the decoder raised
recv(frame) ==
    LET gprov_data == decode_gprov_message(frame)
    IN  IF gprov_data.class # "GProvData" THEN Raised(gprov_data.class)
        ELSE Returned(gprov_data.msg_params.content)

----------------------------------------------------------------------------
\* GProvLayer: the ACK watcher thread (__check_tr_ack) and send

\* The local type_ of __check_tr_ack: first the int START, later what
\* decode_gprov_message returned, a GProvData object
GProvDataValue(d) == [class |-> "GProvData", val |-> d.type_]

\* type_ == ACKNOWLEDGMENT: a GProvData object never equals an int
is_acknowledgment(t) == t.class = "int" /\ t.val = ACKNOWLEDGMENT

\* The ACK frame a device sends: type ACKNOWLEDGMENT, padding 0
AckFrame == << ACKNOWLEDGMENT >>

NoTransaction ==
    [len |-> 0, first |-> 0, start |-> 0, wait_start |-> 0, end_ |-> 0,
     result |-> "none", ack_at |-> -1, stale_timeout |-> FALSE, stale_recv |-> FALSE]

GInit ==
    /\ g_pc = "idle"
    /\ g_content = << >>
    /\ g_segs = << >>
    /\ g_bearer = << >>
    /\ ack_recv_event = FALSE
    /\ ack_timeout_event = FALSE
    /\ g_watchers = << >>
    /\ g_inbound = << >>
    /\ clock = 0
    /\ g_tr = NoTransaction
    /\ g_sends = 0
    /\ g_rx_pos = 0
    /\ g_rx_out = << >>
    /\ g_rx_acks = << >>

\* send, lines 197-201: the payload is pushed into a Buffer and __send_start_tr
\* hands the START frame to pb_adv_layer.send, after the frames of the sends
\* before; a payload too short for pull_be(20) raises and no frame goes out.
\* The record of the transaction starts afresh and keeps the number of frames
\* that were on the bearer before (first); the bearer, what the peer has taken
\* and what waits at pb_adv_layer.recv stay as they are.
SendStartTr(L) ==
    /\ g_pc = "idle"
    /\ g_sends < MaxSends
    /\ LET content == Payload(L)
           r == send_start_tr(content)
           tr == [NoTransaction EXCEPT !.len = L, !.first = Len(g_bearer),
                                       !.start = clock,
                                       !.stale_timeout = ack_timeout_event,
                                       !.stale_recv = ack_recv_event]
       IN  /\ g_content' = content
           /\ g_sends' = g_sends + 1
           /\ IF r.ok
              THEN /\ g_bearer' = Append(g_bearer, r.frame)
                   /\ g_segs' = r.segs
                   /\ g_pc' = "start_sent"
                   /\ g_tr' = tr
              ELSE /\ g_bearer' = g_bearer
                   /\ g_segs' = << >>
                   /\ g_pc' = "idle"
                   /\ g_tr' = [tr EXCEPT !.result = "BufferError", !.end_ = clock]
    /\ UNCHANGED << ack_recv_event, ack_timeout_event, g_watchers, g_inbound, clock,
                    g_rx_pos, g_rx_out, g_rx_acks >>
    /\ UNCHANGED << pvars, nvars >>

\* send, line 204: __check_tr_ack() starts the watcher thread
StartCheckTrAck ==
    /\ g_pc = "start_sent"
    /\ g_pc' = "ack_checking"
    /\ g_watchers' = Append(g_watchers,
                            [pc |-> "begin", type_ |-> IntValue(START),
                             start_time |-> 0, elapsed_time |-> 0, tr |-> g_sends])
    /\ UNCHANGED << g_content, g_segs, g_bearer, ack_recv_event, ack_timeout_event,
                    g_inbound, clock, g_tr, g_sends, g_rx_pos, g_rx_out, g_rx_acks >>
    /\ UNCHANGED << pvars, nvars >>

RemoveAt(s, i) == SubSeq(s, 1, i - 1) \o SubSeq(s, i + 1, Len(s))

\* __check_tr_ack, lines 141-144: the locals; both times are time()
CheckTrAckBegin(i) ==
    /\ i \in 1..Len(g_watchers)
    /\ g_watchers[i].pc = "begin"
    /\ g_watchers' = [g_watchers EXCEPT ![i] =
                        [pc |-> "loop", type_ |-> IntValue(START),
                         start_time |-> time(clock), elapsed_time |-> time(clock),
                         tr |-> g_watchers[i].tr]]
    /\ UNCHANGED << g_pc, g_content, g_segs, g_bearer, ack_recv_event,
                    ack_timeout_event, g_inbound, clock, g_tr, g_sends, g_rx_pos,
                    g_rx_out, g_rx_acks >>
    /\ UNCHANGED << pvars, nvars >>

\* __check_tr_ack, lines 146-156: one evaluation of the loop condition, then
\* either one iteration (a poll of the bearer of at most 0.5 s) or the exit,
\* which sets __ack_recv_event on an ACK in time and always __ack_timeout_event.
\* An iteration whose frame the decoder refuses ends the thread with the
\* decoder's exception, no event set.
CheckTrAckLoop(i) ==
    /\ i \in 1..Len(g_watchers)
    /\ g_watchers[i].pc = "loop"
    /\ LET w == g_watchers[i]
       IN  IF ~is_acknowledgment(w.type_) /\ w.elapsed_time < AckLimit
           THEN IF g_inbound # << >>
                THEN /\ g_watchers' =
                            LET decoded == decode_gprov_message(Head(g_inbound))
                            IN  IF decoded.class # "GProvData"
                                THEN RemoveAt(g_watchers, i)
                                ELSE [g_watchers EXCEPT ![i] =
                                        [w EXCEPT !.type_ = GProvDataValue(decoded),
                                                  !.elapsed_time = w.elapsed_time
                                                        + w.start_time - time(clock)]]
                     /\ g_inbound' = Tail(g_inbound)
                     /\ UNCHANGED << clock, ack_recv_event, ack_timeout_event >>
                ELSE \* recv returned None after the poll: push_be(None) fails
                     \* and the thread ends without setting an event
                     /\ g_watchers' = RemoveAt(g_watchers, i)
                     /\ clock' = clock + PollTime
                     /\ UNCHANGED << g_inbound, ack_recv_event, ack_timeout_event >>
           ELSE /\ ack_recv_event' =
                      IF is_acknowledgment(w.type_) /\ w.elapsed_time < AckLimit
                      THEN TRUE ELSE ack_recv_event
                /\ ack_timeout_event' = TRUE
                /\ g_watchers' = RemoveAt(g_watchers, i)
                /\ UNCHANGED << g_inbound, clock >>
    /\ UNCHANGED << g_pc, g_content, g_segs, g_bearer, g_tr, g_sends, g_rx_pos,
                    g_rx_out, g_rx_acks >>
    /\ UNCHANGED << pvars, nvars >>

\* send, line 207: __send_continuation_tr puts every CONTINUATION on the bearer
SendContinuationTr ==
    /\ g_pc = "ack_checking"
    /\ g_bearer' = g_bearer \o send_continuation_tr(g_segs)
    /\ g_pc' = "waiting"
    /\ g_tr' = [g_tr EXCEPT !.wait_start = clock]
    /\ UNCHANGED << g_content, g_segs, ack_recv_event, ack_timeout_event, g_watchers,
                    g_inbound, clock, g_sends, g_rx_pos, g_rx_out, g_rx_acks >>
    /\ UNCHANGED << pvars, nvars >>

\* The result of send once the wait is over (lines 212-214): the exception
\* 'No ack message received within 30 seconds' unless __ack_recv_event is set
send_result(recv_event) == IF ~recv_event THEN "NoAckException" ELSE "ok"

\* send, lines 210-214: __ack_timeout_event.wait(35) returns when the event is
\* set or 35 s have passed, then the check of __ack_recv_event
SendWaitAck ==
    /\ g_pc = "waiting"
    /\ ack_timeout_event \/ clock - g_tr.wait_start >= WaitLimit
    /\ g_pc' = "idle"
    /\ g_tr' = [g_tr EXCEPT !.result = send_result(ack_recv_event), !.end_ = clock]
    /\ UNCHANGED << g_content, g_segs, g_bearer, ack_recv_event, ack_timeout_event,
                    g_watchers, g_inbound, clock, g_sends, g_rx_pos, g_rx_out,
                    g_rx_acks >>
    /\ UNCHANGED << pvars, nvars >>

\* The device's ACKNOWLEDGMENT for the transaction reaches the bearer, once
\* every frame of the transaction is on the bearer
AckArrives ==
    /\ g_pc = "waiting"
    /\ g_tr.ack_at = -1
    /\ g_inbound' = Append(g_inbound, AckFrame)
    /\ g_tr' = [g_tr EXCEPT !.ack_at = clock]
    /\ UNCHANGED << g_pc, g_content, g_segs, g_bearer, ack_recv_event,
                    ack_timeout_event, g_watchers, clock, g_sends, g_rx_pos,
                    g_rx_out, g_rx_acks >>
    /\ UNCHANGED << pvars, nvars >>

\* Time passes only while no thread can run: no watcher is alive and the
\* sending thread is idle or blocked in wait
Tick ==
    /\ clock < MaxClock
    /\ g_watchers = << >>
    /\ \/ g_pc = "idle"
       \/ g_pc = "waiting" /\ ~ack_timeout_event /\ clock - g_tr.wait_start < WaitLimit
    /\ clock' = clock + 1
    /\ UNCHANGED << g_pc, g_content, g_segs, g_bearer, ack_recv_event,
                    ack_timeout_event, g_watchers, g_inbound, g_tr, g_sends,
                    g_rx_pos, g_rx_out, g_rx_acks >>
    /\ UNCHANGED << pvars, nvars >>

\* The peer's GProvLayer.recv takes the next frame of the bearer ('prov'
\* channel) and returns its content, or raises; it puts nothing on the bearer
PeerRecv ==
    /\ g_rx_pos < Len(g_bearer)
    /\ LET r == recv(g_bearer[g_rx_pos + 1])
       IN  g_rx_out' = IF r.exc = "none" THEN Append(g_rx_out, r.val) ELSE g_rx_out
    /\ g_rx_pos' = g_rx_pos + 1
    /\ UNCHANGED << g_pc, g_content, g_segs, g_bearer, ack_recv_event,
                    ack_timeout_event, g_watchers, g_inbound, clock, g_tr, g_sends,
                    g_rx_acks >>
    /\ UNCHANGED << pvars, nvars >>

----------------------------------------------------------------------------
\* Provisioning layer (core/provisioning.py)

PROVISIONING_INVITE == 0
PROVISIONING_CAPABILITIES == 1
PROVISIONING_START == 2
PROVISIONING_PUBLIC_KEY == 3
PROVISIONING_INPUT_COMPLETE == 4
PROVISIONING_CONFIRMATION == 5
PROVISIONING_RANDOM == 6
PROVISIONING_DATA == 7
PROVISIONING_COMPLETE == 8
PROVISIONING_FAILED == 9

CLOSE_SUCCESS == 0
CLOSE_TIMEOUT == 1
CLOSE_FAIL == 2

\* ProvisioningLayer.__init__: default_attention_duration, public_key_type,
\* authentication_method, authentication_action, authentication_size
default_attention_duration == 5
public_key_type == 0
authentication_method == 0
authentication_action == 0
authentication_size == 0

\* Byte strings of this layer are sequences of atoms. An atom is one literal
\* byte or one fixed-width field whose bytes the model does not open: a key
\* coordinate, a random number, the output of a cipher with its inputs.
Atom(k, n, a) == [k |-> k, n |-> n, a |-> a]
Lit(n) == Atom("byte", n, << >>)

\* Python values where the type decides what + does
PyNone == [ty |-> "NoneType", b |-> << >>]
PyInt(n) == [ty |-> "int", b |-> << Lit(n) >>]
PyBytes(b) == [ty |-> "bytes", b |-> b]
PyTypeError == [ty |-> "TypeError", b |-> << >>]

\* An attribute __init__ does not create
PyUnset == [ty |-> "unset", b |-> << >>]

\* Number of bytes of an atom and of a byte string
RECURSIVE AtomWidth(_), ByteLen(_)
AtomWidth(atom) ==
    CASE atom.k = "byte" -> 1
      [] atom.k \in {"cmac", "zero16", "random", "net_key", "confirmation", "ccm_mic"} -> 16
      [] atom.k \in {"pub_x", "pub_y", "ecdh_x", "ecdh_y"} -> 32
      [] atom.k \in {"prck", "prsk", "prsn", "iv_index"} -> 4
      [] atom.k \in {"key_index", "unicast"} -> 2
      [] atom.k = "capabilities" -> 11
      [] atom.k = "ccm" -> ByteLen(atom.a[3])
      [] OTHER -> 0

ByteLen(bytes) ==
    IF bytes = << >> THEN 0 ELSE AtomWidth(bytes[1]) + ByteLen(Tail(bytes))

\* x + y of Python: bytes + bytes concatenates, int + int adds, int + bytes
\* and bytes + int raise TypeError
py_add(x, y) ==
    IF x.ty = "bytes" /\ y.ty = "bytes" THEN PyBytes(x.b \o y.b)
    ELSE IF x.ty = "int" /\ y.ty = "int" THEN PyInt(x.b[1].n + y.b[1].n)
    ELSE PyTypeError

\* v1 + v2 + ... + vn, evaluated from the left
RECURSIVE py_sum(_)
py_sum(vs) ==
    IF Len(vs) = 1 THEN vs[1]
    ELSE py_add(py_sum(SubSeq(vs, 1, Len(vs) - 1)), vs[Len(vs)])

\* Crypto.Hash.CMAC with AES: a 16-byte digest, one atom
aes_cmac(key, msg) == << Atom("cmac", 0, << key, msg >>) >>

\* 16 zero bytes: the key of s1 and the auth value of No OOB
Zero16 == << Atom("zero16", 0, << >>) >>

\* __s1
s1(input_) == aes_cmac(Zero16, input_)

\* __k1
k1(shared_secret, salt, msg) == aes_cmac(aes_cmac(salt, shared_secret), msg)

\* b'prck', b'prsk', b'prsn'
Label(name) == << Atom(name, 0, << >>) >>

\* __aes_ccm: (cipher.encrypt(data), cipher.digest()); AES.new(key,
\* AES.MODE_CCM, nonce) raises ValueError for a key that is not of 16, 24 or
\* 32 bytes and for a nonce that is not of 7 to 13 bytes
aes_ccm(key, nonce, data) ==
    IF ByteLen(key) \notin {16, 24, 32} \/ ByteLen(nonce) \notin 7..13
    THEN [exc |-> "ValueError", encrypted |-> << >>, mic |-> << >>]
    ELSE [exc |-> "none",
          encrypted |-> << Atom("ccm", 0, << key, nonce, data >>) >>,
          mic |-> << Atom("ccm_mic", 0, << key, nonce, data >>) >>]

\* Key pairs: the provisioner's is 1, the device's is 2
ProvisionerKey == 1
DeviceKey == 2

\* The public key of the key pair `id`: coordinates x and y (32 bytes each)
PubKey(id) == [x |-> << Atom("pub_x", id, << >>) >>, y |-> << Atom("pub_y", id, << >>) >>]

\* secret_multiplier * point: the P-256 point priv * Pub(pub), the same for
\* (a, b) and (b, a)
EcdhPoint(priv, pub) ==
    LET lo == IF priv < pub THEN priv ELSE pub
        hi == IF priv < pub THEN pub ELSE priv
    IN  [x |-> << Atom("ecdh_x", lo * 16 + hi, << >>) >>,
         y |-> << Atom("ecdh_y", lo * 16 + hi, << >>) >>]

\* get_random_bytes(16) of the provisioner and of the device
RandomProvisioner == << Atom("random", ProvisionerKey, << >>) >>
RandomDevice == << Atom("random", DeviceKey, << >>) >>

\* The record nets.get(net_name) returns, and next_unicast_address()
Net == [net_key |-> << Atom("net_key", 0, << >>) >>,
        key_index |-> << Atom("key_index", 0, << >>) >>,
        iv_index |-> << Atom("iv_index", 0, << >>) >>,
        unicast_address |-> << Atom("unicast", 0, << >>) >>]

\* The fields of ProvisioningLayer after __init__
NewLayer ==
    [provisioning_invite |-> PyNone,
     provisioning_capabilities |-> << >>,
     provisioning_start |-> << >>,
     auth_value |-> << >>,
     sk |-> 0,
     pub_key |-> [x |-> << >>, y |-> << >>],
     device_pub_key |-> [x |-> << >>, y |-> << >>],
     ecdh_secret |-> [x |-> << >>, y |-> << >>],
     confirmation_salt |-> PyUnset,
     random_provisioner |-> PyNone,
     random_device |-> PyNone]

\* One entry of the session's trace: a transaction sent or received, a
\* transaction sent that got no ACK, a link control frame
Ev(e, pdu) == [e |-> e, pdu |-> pdu]

----------------------------------------------------------------------------
\* The simulated device

\* Number of GProv transactions of a complete session: INVITE, CAPABILITIES,
\* START, PUBLIC_KEY, PUBLIC_KEY, CONFIRMATION, CONFIRMATION, RANDOM, RANDOM,
\* DATA, COMPLETE
LastTransaction == 11

\* Opcodes the device may put on its answers
DeviceOpcodes(expected) == {expected, PROVISIONING_FAILED, PROVISIONING_INPUT_COMPLETE}

Devices ==
    [cap_opcode : DeviceOpcodes(PROVISIONING_CAPABILITIES),
     key_opcode : DeviceOpcodes(PROVISIONING_PUBLIC_KEY),
     conf_opcode : DeviceOpcodes(PROVISIONING_CONFIRMATION),
     confirmation : {"genuine", "other"},
     random_opcode : DeviceOpcodes(PROVISIONING_RANDOM),
     final_opcode : {PROVISIONING_COMPLETE, PROVISIONING_FAILED, PROVISIONING_CONFIRMATION},
     timeout_at : 0..LastTransaction]

\* The capabilities body (11 bytes)
CapabilitiesBody == << Atom("capabilities", 0, << >>) >>

\* The start parameters as the device reads them from the START PDU
StartParameters ==
    << Lit(0), Lit(public_key_type), Lit(authentication_method),
       Lit(authentication_action), Lit(authentication_size) >>

\* The confirmation a device following the protocol computes: AES-CMAC under
\* its confirmation key of its random and the auth value
DeviceConfirmation ==
    LET inputs == << Lit(default_attention_duration) >> \o CapabilitiesBody
                  \o StartParameters
                  \o PubKey(ProvisionerKey).x \o PubKey(ProvisionerKey).y
                  \o PubKey(DeviceKey).x \o PubKey(DeviceKey).y
        key == k1(EcdhPoint(DeviceKey, ProvisionerKey).x, s1(inputs), Label("prck"))
    IN  aes_cmac(key, RandomDevice \o Zero16)

\* What the device answers in transaction number k
DeviceReply(d, k) ==
    CASE k = 2 -> << Lit(d.cap_opcode) >> \o CapabilitiesBody
      [] k = 5 -> << Lit(d.key_opcode) >> \o PubKey(DeviceKey).x \o PubKey(DeviceKey).y
      [] k = 7 -> << Lit(d.conf_opcode) >>
                  \o (IF d.confirmation = "genuine" THEN DeviceConfirmation
                      ELSE << Atom("confirmation", 0, << >>) >>)
      [] k = 9 -> << Lit(d.random_opcode) >> \o RandomDevice
      [] OTHER -> << Lit(d.final_opcode) >>

----------------------------------------------------------------------------
\* The GProv layer as ProvisioningLayer uses it: open_link, send_transaction,
\* get_transaction, close_link. A running call is a record
\*   [s: the layer's fields, log: the trace, tx: transactions made so far,
\*    exc: the exception being raised, "waiting" while the call waits inside a
\*         transaction, or "none",
\*    ret: the last value returned,
\*    upto: the number of transactions the call has been let through,
\*    wait: the kind of transaction the call waits in, "send" or "recv"]
\* The call waits inside every transaction: it has run as far as the
\* transaction after number upto and stays there, the transaction not yet
\* made, until the next step lets it through.

NewCall ==
    [s |-> NewLayer, log |-> << >>, tx |-> 0, exc |-> "none", ret |-> << >>,
     upto |-> 0, wait |-> ""]

raise(st, exc) == [st EXCEPT !.exc = exc]

\* The call waits inside a transaction of kind wait
waits(st, wait) == [st EXCEPT !.exc = "waiting", !.wait = wait]

\* send_transaction(pdu): the PDU goes out and the layer awaits the ACK of the
\* transaction; without ACK the transaction fails with AckTimeout, the error
\* of the GProv layer (GProvLayer.send, gprov.py line 214, raises a plain
\* Exception there). Nothing turns it into ProvisioningTimeout
send_transaction(d, st, pdu) ==
    IF st.exc # "none" THEN st
    ELSE IF st.tx = st.upto THEN waits(st, "send")
    ELSE LET k == st.tx + 1
             sent == [st EXCEPT !.tx = k, !.log = Append(@, Ev("send", pdu))]
         IN  IF d.timeout_at = k
             THEN raise([sent EXCEPT !.log = Append(@, Ev("timeout", << >>))],
                        "AckTimeout")
             ELSE sent

\* get_transaction(): the next transaction of the device. The layer pulls
\* frames from the bearer until a transaction is complete (GProvLayer.recv,
\* gprov.py line 218, pulls without a timeout): when the device sends nothing
\* the call goes on waiting
get_transaction(d, st) ==
    IF st.exc # "none" THEN st
    ELSE IF st.tx = st.upto THEN waits(st, "recv")
    ELSE LET k == st.tx + 1
         IN  IF d.timeout_at = k
             THEN waits(st, "recv")
             ELSE [st EXCEPT !.tx = k, !.ret = DeviceReply(d, k),
                             !.log = Append(@, Ev("recv", DeviceReply(d, k)))]

\* open_link(device_uuid) and close_link(reason)
open_link(st) == [st EXCEPT !.log = Append(@, Ev("link_open", << >>))]
close_link(st, reason) == [st EXCEPT !.log = Append(@, Ev("link_close", << Lit(reason) >>))]

----------------------------------------------------------------------------
\* ProvisioningLayer: the phases

\* __recv(opcode_verification): the next transaction, its opcode checked; the
\* content after the opcode is returned
prov_recv(d, st, opcode_verification) ==
    LET got == get_transaction(d, st)
    IN  IF got.exc # "none" THEN got
        ELSE LET opcode == Head(got.ret).n
                 content == Tail(got.ret)
             IN  IF opcode = PROVISIONING_FAILED THEN raise(got, "ProvisioningFail")
                 ELSE IF opcode # opcode_verification THEN raise(got, "ProvisioningFail")
                 ELSE [got EXCEPT !.ret = content]

\* __invitation_prov_phase
invitation_prov_phase(d, st) ==
    LET sent == send_transaction(d, st, << Lit(PROVISIONING_INVITE),
                                           Lit(default_attention_duration) >>)
        kept == IF sent.exc # "none" THEN sent
                ELSE [sent EXCEPT !.s.provisioning_invite = PyInt(default_attention_duration)]
        got == get_transaction(d, kept)
    IN  IF got.exc # "none" THEN got
        ELSE LET opcode == Head(got.ret).n
                 caps == [got EXCEPT !.s.provisioning_capabilities = Tail(got.ret)]
             IN  IF opcode # PROVISIONING_CAPABILITIES
                 THEN raise(caps, "ProvisioningFail")
                 ELSE caps

\* __gen_keys: a fresh key pair
gen_keys(st) ==
    [st EXCEPT !.s.sk = ProvisionerKey, !.s.pub_key = PubKey(ProvisionerKey)]

\* __calc_ecdh_secret: secret_multiplier of __sk times the point of __vk, the
\* layer's own verifying key
calc_ecdh_secret(st) ==
    [st EXCEPT !.s.ecdh_secret = EcdhPoint(st.s.sk, st.s.sk)]

\* A variant of __exchanging_pub_keys_prov_phase that sends the public key
\* before the start PDU
exchanging_pub_keys_key_first(d, st) ==
    LET start_buff == << Lit(PROVISIONING_START), Lit(0), Lit(public_key_type),
                         Lit(authentication_method), Lit(authentication_action),
                         Lit(authentication_size) >>
        set == [st EXCEPT !.s.provisioning_start = Tail(start_buff),
                          !.s.auth_value = Zero16]
        keys == gen_keys(set)
        sent == send_transaction(d, keys,
                     << Lit(PROVISIONING_PUBLIC_KEY) >> \o keys.s.pub_key.x \o keys.s.pub_key.y)
        sent2 == send_transaction(d, sent, start_buff)
        got == get_transaction(d, sent2)
    IN  IF got.exc # "none" THEN got
        ELSE LET opcode == Head(got.ret).n
             IN  IF opcode # PROVISIONING_PUBLIC_KEY
                 THEN raise(got, "ProvisioningFail")
                 ELSE calc_ecdh_secret(
                        [got EXCEPT !.s.device_pub_key =
                            [x |-> << got.ret[2] >>, y |-> << got.ret[3] >>]])

\* __exchanging_pub_keys_prov_phase
exchanging_pub_keys_prov_phase(d, st) ==
    LET start_buff == << Lit(PROVISIONING_START), Lit(0), Lit(public_key_type),
                         Lit(authentication_method), Lit(authentication_action),
                         Lit(authentication_size) >>
        set == [st EXCEPT !.s.provisioning_start = Tail(start_buff),
                          !.s.auth_value = Zero16]
        sent == send_transaction(d, set, start_buff)
        keys == IF sent.exc # "none" THEN sent ELSE gen_keys(sent)
        sent2 == send_transaction(d, keys,
                     << Lit(PROVISIONING_PUBLIC_KEY) >> \o keys.s.pub_key.x \o keys.s.pub_key.y)
        got == get_transaction(d, sent2)
    IN  IF got.exc # "none" THEN got
        ELSE LET opcode == Head(got.ret).n
             IN  IF opcode # PROVISIONING_PUBLIC_KEY
                 THEN raise(got, "ProvisioningFail")
                 ELSE calc_ecdh_secret(
                        [got EXCEPT !.s.device_pub_key =
                            [x |-> << got.ret[2] >>, y |-> << got.ret[3] >>]])

\* __authentication_prov_phase
authentication_prov_phase(d, st) ==
    LET confirmation_inputs ==
            py_sum(<< st.s.provisioning_invite,
                      PyBytes(st.s.provisioning_capabilities),
                      PyBytes(st.s.provisioning_start),
                      PyBytes(st.s.pub_key.x), PyBytes(st.s.pub_key.y),
                      PyBytes(st.s.device_pub_key.x), PyBytes(st.s.device_pub_key.y) >>)
    IN  IF confirmation_inputs.ty # "bytes" THEN raise(st, "TypeError")
        ELSE
        LET confirmation_salt == s1(confirmation_inputs.b)
            confirmation_key == k1(st.s.ecdh_secret.x, confirmation_salt, Label("prck"))
            rnd == [st EXCEPT !.s.confirmation_salt = PyBytes(confirmation_salt),
                              !.s.random_provisioner = PyBytes(RandomProvisioner)]
            confirmation_provisioner ==
                aes_cmac(confirmation_key, rnd.s.random_provisioner.b \o rnd.s.auth_value)
            sent == send_transaction(d, rnd, confirmation_provisioner)
            got == prov_recv(d, sent, PROVISIONING_CONFIRMATION)
            recv_confirmation_device == got.ret
            sent2 == send_transaction(d, got, got.s.random_provisioner.b)
            got2 == prov_recv(d, sent2, PROVISIONING_RANDOM)
        IN  IF got2.exc # "none" THEN got2
            ELSE LET dev_rnd == [got2 EXCEPT !.s.random_device = PyBytes(got2.ret)]
                     calc_confirmation_device ==
                        aes_cmac(confirmation_key,
                                 dev_rnd.s.random_device.b \o dev_rnd.s.auth_value)
                 IN  IF recv_confirmation_device # calc_confirmation_device
                     THEN raise(dev_rnd, "ProvisioningFail")
                     ELSE dev_rnd

\* __send_data_prov_phase: next_unicast_address() is called before anything
\* can fail; __confirmation_salt exists only once the authentication phase has
\* assigned it; the session nonce is the 16-byte output of __k1
send_data_prov_phase(d, st) ==
    LET flags == << Lit(0) >>
        net == [st EXCEPT !.log = Append(@, Ev("next_unicast_address",
                                                Net.unicast_address))]
        salt_inputs == py_sum(<< net.s.confirmation_salt, net.s.random_provisioner,
                                 net.s.random_device >>)
    IN  IF net.s.confirmation_salt.ty = "unset" THEN raise(net, "AttributeError")
        ELSE IF salt_inputs.ty # "bytes" THEN raise(net, "TypeError")
        ELSE IF net.s.ecdh_secret.x = << >> THEN raise(net, "TypeError")
        ELSE
        LET provisioning_salt == s1(salt_inputs.b)
            session_key == k1(net.s.ecdh_secret.x, provisioning_salt, Label("prsk"))
            session_nonce == k1(net.s.ecdh_secret.x, provisioning_salt, Label("prsn"))
            provisioning_data == Net.net_key \o Net.key_index \o flags \o Net.iv_index
                                 \o Net.unicast_address
            ccm == aes_ccm(session_key, session_nonce, provisioning_data)
        IN  IF ccm.exc # "none" THEN raise(net, ccm.exc)
            ELSE prov_recv(d, send_transaction(d, net, ccm.encrypted \o ccm.mic),
                           PROVISIONING_CONFIRMATION)

\* The phases of provisioning_device in the order of lines 80-83
NextPhase(pc) ==
    CASE pc = "invitation" -> "exchanging_pub_keys"
      [] pc = "exchanging_pub_keys" -> "authentication"
      [] pc = "authentication" -> "send_data"
      [] OTHER -> "close"

\* Where provisioning_device is once the phase pc has run on: in the phase
\* still while it waits inside a transaction, in the handlers when it raised
\* exc, at the next phase otherwise
AfterPhase(pc, exc) ==
    IF exc = "waiting" THEN pc
    ELSE IF exc # "none" THEN "except"
    ELSE NextPhase(pc)

Phase(pc, d, st) ==
    CASE pc = "invitation" -> invitation_prov_phase(d, st)
      [] pc = "exchanging_pub_keys" -> exchanging_pub_keys_prov_phase(d, st)
      [] pc = "authentication" -> authentication_prov_phase(d, st)
      [] OTHER -> send_data_prov_phase(d, st)

\* A variant of close_reason where the handler of ProvisioningFail closes with
\* CLOSE_SUCCESS
close_reason_success_on_fail(exc) ==
    CASE exc = "none" -> CLOSE_SUCCESS
      [] exc = "ProvisioningFail" -> CLOSE_SUCCESS
      [] exc = "ProvisioningTimeout" -> CLOSE_TIMEOUT
      [] OTHER -> -1

\* Lines 85-89: the reason of the LINK_CLOSE for what the phases raised
\* ("none": they all returned); -1 for an exception no handler catches
close_reason(exc) ==
    CASE exc = "none" -> CLOSE_SUCCESS
      [] exc = "ProvisioningFail" -> CLOSE_FAIL
      [] exc = "ProvisioningTimeout" -> CLOSE_TIMEOUT
      [] OTHER -> -1

PInit ==
    /\ dev \in Devices
    /\ p_pc = "start"
    /\ p_st = NewCall
    /\ p_entry = NewCall
    /\ p_result = "running"

\* provisioning_device, line 77
OpenLink ==
    /\ p_pc = "start"
    /\ p_st' = open_link(p_st)
    /\ p_entry' = p_st'
    /\ p_pc' = "invitation"
    /\ UNCHANGED << dev, p_result >>
    /\ UNCHANGED << gvars, nvars >>

\* The call waits in get_transaction for a transaction the device leaves out
WaitsForNothing ==
    /\ p_st.exc = "waiting"
    /\ p_st.wait = "recv"
    /\ dev.timeout_at = p_st.tx + 1

\* provisioning_device, lines 80-83: the phase runs on, from its first
\* statement to the first transaction, or through the transaction the call
\* waits in (its ACK or the device's answer has come, or the wait for the ACK
\* is over) to the next one or to the end of the phase; an exception leaves
\* the try block. The phase is computed from the state it was entered in.
RunPhase ==
    /\ p_pc \in {"invitation", "exchanging_pub_keys", "authentication", "send_data"}
    /\ ~WaitsForNothing
    /\ p_st' = Phase(p_pc, dev,
                     [p_entry EXCEPT !.upto = IF p_st.exc = "waiting"
                                              THEN p_st.tx + 1 ELSE p_st.tx])
    /\ p_pc' = AfterPhase(p_pc, p_st'.exc)
    /\ p_entry' = IF p_st'.exc = "none" THEN p_st' ELSE p_entry
    /\ UNCHANGED << dev, p_result >>
    /\ UNCHANGED << gvars, nvars >>

\* provisioning_device, lines 85-89: close_link(CLOSE_SUCCESS) at the end of
\* the try block, or the handler of the exception; an exception without a
\* handler leaves the call
EndCall ==
    /\ p_pc \in {"close", "except"}
    /\ LET reason == close_reason(p_st.exc)
       IN  IF reason # -1
           THEN /\ p_st' = close_link(p_st, reason)
                /\ p_result' = "returned"
           ELSE /\ p_st' = p_st
                /\ p_result' = p_st.exc
    /\ p_pc' = "done"
    /\ UNCHANGED << dev, p_entry >>
    /\ UNCHANGED << gvars, nvars >>

----------------------------------------------------------------------------
\* Network layer (client/mesh_layers/network_layer.py)
\* Byte strings of this layer are sequences of numbers 0..255.

RECURSIVE Sum(_)
Sum(bytes) == IF bytes = << >> THEN 0 ELSE (bytes[1] + Sum(Tail(bytes))) % 256

RECURSIVE BitXor(_, _)
BitXor(a, b) ==
    IF a = 0 THEN b
    ELSE IF b = 0 THEN a
    ELSE ((a + b) % 2) + 2 * BitXor(a \div 2, b \div 2)

Zeros(n) == [i \in 1..n |-> 0]

\* int.to_bytes(n, 'big') and int.from_bytes(bytes, 'big')
RECURSIVE to_bytes(_, _)
to_bytes(v, n) == IF n = 0 THEN << >> ELSE Append(to_bytes(v \div 256, n - 1), v % 256)

RECURSIVE from_bytes(_)
from_bytes(bytes) ==
    IF bytes = << >> THEN 0
    ELSE from_bytes(SubSeq(bytes, 1, Len(bytes) - 1)) * 256 + bytes[Len(bytes)]

\* Python slices: s[a:b] (0 <= a, b), s[-n:] and s[:-n]
Slice(s, a, b) == SubSeq(s, a + 1, IF b < Len(s) THEN b ELSE Len(s))
LastBytes(s, n) == SubSeq(s, IF Len(s) > n THEN Len(s) - n + 1 ELSE 1, Len(s))
DropLast(s, n) == SubSeq(s, 1, Len(s) - n)

\* crypto.k2(n, p): the key material as 33 bytes, most significant first
k2(n) == LET sum == Sum(n) IN [i \in 1..33 |-> (sum * 4 + i * 5) % 256]

\* crypto.e(key, plaintext): one AES block
e(key, plaintext) ==
    LET sum == Sum(key) + 3 * Sum(plaintext)
    IN  [i \in 1..16 |-> (sum + 7 * i) % 256]

\* Length of the MIC crypto.aes_ccm appends
CcmMicLen == 8

\* crypto.aes_ccm(key, nonce, text, adata): ciphertext || MIC; the key is 16
\* bytes and the nonce 13
aes_ccm_net(key, nonce, text) ==
    IF Len(key) # 16 \/ Len(nonce) # 13 THEN Raised("ValueError")
    ELSE LET sum == Sum(key) + Sum(nonce)
             tag == 5 * Sum(text) + sum
         IN  Returned([i \in 1..Len(text) |-> (text[i] + sum + i) % 256]
                      \o [j \in 1..CcmMicLen |-> (tag + 11 * j) % 256])

\* The network keys the store's records are made from: the nids of keys 1 and
\* 3 are the same, the nid of key 2 is another
Keys == {1, 2, 3}

\* The 16-byte key of network number id, and the iv index of every record
KeyBytes(id) == [i \in 1..16 |-> id]
IvIndex == << 18, 52, 86, 120 >>

\* NetworkData(name, key, key_index, iv_index, seq, apps) as far as the layer
\* reads it
NetworkData(id) == [name |-> id, key |-> KeyBytes(id), iv_index |-> IvIndex, seq |-> 0]

\* NetworkData.load(base_dir + net_dir + name + '.yml')
load(nets, name) == nets[CHOOSE i \in 1..Len(nets) : nets[i].name = name]

\* HardContext() after reset()
NewHardContext ==
    [is_ctrl_msg |-> FALSE, ttl |-> 0, seq |-> [ty |-> "bytes", b |-> Zeros(3)],
     is_crtl_msg |-> "unset"]

\* _gen_security_material: nid = (materials & (0x7f << 32)) >> 32,
\* encryption_key = (materials & (0xFFFF_FFFF_FFFF_FFFF << 16)) >> 16,
\* privacy_key = materials & 0xFFFF_FFFF_FFFF_FFFF, the keys as 16 bytes
gen_security_material(net_data) ==
    LET materials == k2(net_data.key)
    IN  [nid |-> materials[29] % 128,
         encryption_key |-> Zeros(8) \o SubSeq(materials, 24, 31),
         privacy_key |-> Zeros(8) \o SubSeq(materials, 26, 33)]

\* _encrypt: the split of the CCM result is chosen by hard_ctx.is_crtl_msg,
\* an attribute HardContext has only once _fill_hard_ctx has set it
encrypt(hc, soft_ctx, transport_pdu, encryption_key, net_nonce) ==
    LET aes_ccm_result == aes_ccm_net(encryption_key, net_nonce,
                                      soft_ctx.dst_addr \o transport_pdu)
    IN  IF aes_ccm_result.exc # "none" THEN Raised(aes_ccm_result.exc)
        ELSE IF hc.is_crtl_msg = "unset" THEN Raised("AttributeError")
        ELSE IF hc.is_crtl_msg = "true"
        THEN Returned([enc_dst |-> Slice(aes_ccm_result.val, 0, 2),
                       encrypted_data |-> DropLast(Slice(aes_ccm_result.val, 2, Len(aes_ccm_result.val)), 8),
                       net_mic |-> LastBytes(aes_ccm_result.val, 8)])
        ELSE Returned([enc_dst |-> Slice(aes_ccm_result.val, 0, 2),
                       encrypted_data |-> DropLast(Slice(aes_ccm_result.val, 2, Len(aes_ccm_result.val)), 4),
                       net_mic |-> LastBytes(aes_ccm_result.val, 4)])

\* __xor(a, b), lines 50-54: the byte-wise xor of a and b
xor(a, b) == [x \in 1..Len(a) |-> BitXor(a[x], b[x])]

\* A variant of self.__xor(x, y) where the call reaches __xor with x and y
call_xor_applied(x, y) == Returned(xor(x, y))

\* self.__xor(x, y): __xor has the two parameters a and b and no self, so the
\* call through self passes three arguments and raises TypeError
call_xor(x, y) == Raised("TypeError")

\* The types of the operands of line 59: enc_dst + enc_transport_pdu + net_dir,
\* where net_dir is the str of client.data_paths
PrivacyRandomOperands == << "bytes", "bytes", "str" >>

\* _obsfucate
obsfucate(ctl, ttl, seq, src, enc_dst, enc_transport_pdu, net_mic, privacy_key, net_data) ==
    IF \E i \in 1..Len(PrivacyRandomOperands) : PrivacyRandomOperands[i] # "bytes"
    THEN Raised("TypeError")
    ELSE LET privacy_random == Slice(enc_dst \o enc_transport_pdu, 0, 7)
             pecb == e(privacy_key, Zeros(5) \o net_data.iv_index \o privacy_random)
         IN  call_xor(<< ctl + ttl >> \o seq \o src, Slice(pecb, 0, 6))

\* send_pdu: [exc, pdu, seq] with the exception raised or "none", the PDU put
\* on send_queue, and the seq read from hard_ctx (line 77)
send_pdu(transport_pdu, soft_ctx, hc, nets) ==
    LET net_data == load(nets, soft_ctx.network_name)
        sm == gen_security_material(net_data)
        ivi == (net_data.iv_index[4] % 2) * 128
        ctl == IF hc.is_ctrl_msg THEN 128 ELSE 0
        ttl == hc.ttl % 128
        seq == hc.seq
        src == soft_ctx.src_addr
        fail(exc) == [exc |-> exc, pdu |-> << >>, seq |-> seq]
    IN  IF seq.ty # "bytes" THEN fail("TypeError")
        ELSE
        LET net_nonce == << 0 >> \o << ctl + ttl >> \o seq.b \o src \o << 0, 0 >>
                         \o net_data.iv_index
            enc == encrypt(hc, soft_ctx, transport_pdu, sm.encryption_key, net_nonce)
        IN  IF enc.exc # "none" THEN fail(enc.exc)
            ELSE
            LET obsfucated == obsfucate(ctl, ttl, seq.b, src, enc.val.enc_dst,
                                        enc.val.encrypted_data, enc.val.net_mic,
                                        sm.privacy_key, net_data)
            IN  IF obsfucated.exc # "none" THEN fail(obsfucated.exc)
                ELSE [exc |-> "none",
                      pdu |-> << ivi + sm.nid >> \o obsfucated.val \o enc.val.enc_dst
                              \o enc.val.encrypted_data \o enc.val.net_mic,
                      seq |-> seq]

\* A variant of __search_network_by_nid that returns the first record of the
\* store whatever its nid
search_network_by_first(nets, nid) ==
    IF nets # << >> THEN 1 ELSE 0

\* __search_network_by_nid: the place in the store of the first record whose
\* nid is the one looked for, 0 for None
search_network_by_nid(nets, nid) ==
    LET net_nid == [f \in 1..Len(nets) |-> gen_security_material(nets[f]).nid]
    IN  IF \E f \in 1..Len(nets) : net_nid[f] = nid
        THEN CHOOSE f \in 1..Len(nets) :
                /\ net_nid[f] = nid
                /\ \A g \in 1..(f - 1) : net_nid[g] # nid
        ELSE 0

\* _clean_message
clean_message(net_pdu, net_data) ==
    LET privacy_key == gen_security_material(net_data).privacy_key
        privacy_random == Slice(net_pdu, 7, 14)
        obsfucated_data == Slice(net_pdu, 1, 7)
        pecb == e(privacy_key, Zeros(5) \o net_data.iv_index \o privacy_random)
    IN  call_xor(obsfucated_data, Slice(pecb, 0, 6))

\* _fill_hard_ctx: (clean_pdu[0] & 0x80 >> 7) == 1 is (clean_pdu[0] & 1) == 1;
\* seq becomes an int. (clean_pdu[0] of an empty clean_pdu raises IndexError:
\* recv_pdu below.)
fill_hard_ctx(hc, clean_pdu) ==
    [hc EXCEPT !.is_crtl_msg = IF clean_pdu[1] % 2 = 1 THEN "true" ELSE "false",
               !.seq = [ty |-> "int", b |-> << from_bytes(Slice(clean_pdu, 1, 4)) >>]]

\* _decrypt: the CCM call is made with an empty key and an empty nonce
decrypt(hc, encrypted_pdu) ==
    LET aes_ccm_result == aes_ccm_net(<< >>, << >>, encrypted_pdu)
    IN  IF aes_ccm_result.exc # "none" THEN Raised(aes_ccm_result.exc)
        ELSE IF hc.is_crtl_msg = "true"
        THEN Returned([decrypted_pdu |-> DropLast(aes_ccm_result.val, 8),
                       calc_net_mic |-> LastBytes(aes_ccm_result.val, 8)])
        ELSE Returned([decrypted_pdu |-> DropLast(aes_ccm_result.val, 4),
                       calc_net_mic |-> LastBytes(aes_ccm_result.val, 4)])

\* A variant of recv_pdu that puts the PDU of an installed network on
\* transport_pdus without comparing its MIC
recv_pdu_unverified(frame, nets, hc) ==
    LET done(outcome, selected, hc2, out) ==
            [outcome |-> outcome, selected |-> selected, hc |-> hc2, out |-> out]
    IN  IF frame.tag # "message" THEN done("other_channel", 0, hc, << >>)
        ELSE IF frame.pdu = << >> THEN done("IndexError", 0, hc, << >>)
        ELSE
        LET selected == search_network_by_nid(nets, frame.pdu[1] % 128)
        IN  IF selected = 0 THEN done("no_network", 0, hc, << >>)
            ELSE done("published", selected, hc,
                      << [transport_pdu |-> Slice(frame.pdu, 9, Len(frame.pdu)),
                          src_addr |-> Slice(frame.pdu, 5, 7),
                          dst_addr |-> Slice(frame.pdu, 7, 9),
                          network_name |-> nets[selected].name] >>)

\* One pass of the loop of recv_pdu over the frame taken from recv_queue:
\*   outcome: "published", the reason the frame was dropped, or the exception
\*            that ends the task
\*   selected: the place of the record __search_network_by_nid returned, or 0
\*   hc: hard_ctx afterwards;  out: what was put on transport_pdus
recv_pdu(frame, nets, hc) ==
    LET done(outcome, selected, hc2, out) ==
            [outcome |-> outcome, selected |-> selected, hc |-> hc2, out |-> out]
    IN  IF frame.tag # "message" THEN done("other_channel", 0, hc, << >>)
        ELSE IF frame.pdu = << >> THEN done("IndexError", 0, hc, << >>)
        ELSE
        LET nid == frame.pdu[1] % 128
            selected == search_network_by_nid(nets, nid)
        IN  IF selected = 0 THEN done("no_network", 0, hc, << >>)
            ELSE
            LET net_data == nets[selected]
                clean_pdu == clean_message(frame.pdu, net_data)
            IN  IF clean_pdu.exc # "none" THEN done(clean_pdu.exc, selected, hc, << >>)
                ELSE IF clean_pdu.val = << >> THEN done("IndexError", selected, hc, << >>)
                ELSE
                LET hc2 == fill_hard_ctx(hc, clean_pdu.val)
                    net_mic == IF hc2.is_crtl_msg = "true" THEN LastBytes(frame.pdu, 8)
                               ELSE LastBytes(frame.pdu, 4)
                    encrypted_pdu == Slice(frame.pdu, 7, Len(frame.pdu))
                    dec == decrypt(hc2, encrypted_pdu)
                IN  IF dec.exc # "none" THEN done(dec.exc, selected, hc2, << >>)
                    ELSE IF net_mic # dec.val.calc_net_mic
                    THEN done("mic_mismatch", selected, hc2, << >>)
                    ELSE done("published", selected, hc2,
                              << [transport_pdu |-> Slice(dec.val.decrypted_pdu, 2,
                                                          Len(dec.val.decrypted_pdu)),
                                  src_addr |-> LastBytes(clean_pdu.val, 2),
                                  dst_addr |-> Slice(dec.val.decrypted_pdu, 0, 2),
                                  network_name |-> net_data.name] >>)

\* The outcomes after which the loop takes the next frame
Continues(outcome) ==
    outcome \in {"other_channel", "no_network", "mic_mismatch", "published"}

\* The stores the model starts from: records of distinct keys, in any order
RECURSIVE Stores(_)
Stores(n) ==
    IF n = 0 THEN {<< >>}
    ELSE Stores(n - 1) \cup
         {Append(st, NetworkData(k)) : st \in {s \in Stores(n - 1) : Len(s) = n - 1},
                                       k \in Keys}

DistinctKeys(nets) == \A i, j \in 1..Len(nets) : i # j => nets[i].key # nets[j].key

\* The PDU a peer node builds for a transport PDU: the nonce 0x00 || ctl|ttl ||
\* seq || src || 0x00 0x00 || iv_index, dst || transport_pdu under CCM with the
\* network's encryption key, a MIC of 8 bytes for a control PDU and of 4
\* otherwise, the 6 header bytes xored with the PECB of the first 7 bytes that
\* follow them, and ivi|nid in front
PeerPdu(net_data, ctl, ttl, seq, src, dst, transport_pdu) ==
    LET sm == gen_security_material(net_data)
        header == << ctl + ttl >> \o seq \o src
        net_nonce == << 0 >> \o header \o << 0, 0 >> \o net_data.iv_index
        aes_ccm_result == aes_ccm_net(sm.encryption_key, net_nonce,
                                      dst \o transport_pdu).val
        encrypted == DropLast(aes_ccm_result, CcmMicLen)
        net_mic == LastBytes(aes_ccm_result, IF ctl = 128 THEN 8 ELSE 4)
        privacy_random == Slice(encrypted \o net_mic, 0, 7)
        pecb == e(sm.privacy_key, Zeros(5) \o net_data.iv_index \o privacy_random)
        ivi == (net_data.iv_index[4] % 2) * 128
    IN  << ivi + sm.nid >> \o xor(header, Slice(pecb, 0, 6)) \o encrypted \o net_mic

\* The access PDU of a peer on the network of key 2: src 0x0001, dst 0x0002,
\* ttl 3, seq 7, transport PDU AA BB; and the same PDU with the lowest bit of
\* its last byte flipped
ValidPdu == PeerPdu(NetworkData(2), 0, 3, << 0, 0, 7 >>, << 0, 1 >>, << 0, 2 >>,
                    << 170, 187 >>)

TamperedPdu == [ValidPdu EXCEPT ![Len(ValidPdu)] = BitXor(@, 1)]

\* Frames the bearer may deliver: one of another channel, and on the message
\* channel an empty PDU, a PDU of one byte, the PDU of a peer on the network
\* of key 2 (nid 17), that PDU with a bit of its MIC flipped, and full-length
\* PDUs whose first byte carries the nid of keys 1 and 3 (81, here with the ivi
\* bit) and of no key (5)
PduBody == [i \in 1..16 |-> (i * 13) % 256]

InboundFrames ==
    {[tag |-> "beacon", pdu |-> << 81 >> \o PduBody],
     [tag |-> "message", pdu |-> << >>],
     [tag |-> "message", pdu |-> << 17 >>],
     [tag |-> "message", pdu |-> ValidPdu],
     [tag |-> "message", pdu |-> TamperedPdu],
     [tag |-> "message", pdu |-> << 81 + 128 >> \o PduBody],
     [tag |-> "message", pdu |-> << 5 >> \o PduBody]}

NoFrame == [tag |-> "", pdu |-> << >>, selected |-> 0, outcome |-> "none",
            before |-> 0, after |-> 0]

NInit ==
    /\ n_nets \in {st \in Stores(Cardinality(Keys)) : DistinctKeys(st)}
    /\ hard_ctx = NewHardContext
    /\ send_queue = << >>
    /\ recv_queue = << >>
    /\ transport_pdus = << >>
    /\ n_calls = << >>
    /\ n_last = NoFrame
    /\ n_loop = "running"
    /\ n_in = 0

\* The layer above fills hard_ctx before it calls send_pdu
SetHardCtx(is_ctrl, ttl, seq) ==
    /\ hard_ctx' = [hard_ctx EXCEPT !.is_ctrl_msg = is_ctrl, !.ttl = ttl,
                                    !.seq = [ty |-> "bytes", b |-> to_bytes(seq, 3)]]
    /\ hard_ctx' # hard_ctx
    /\ UNCHANGED << n_nets, send_queue, recv_queue, transport_pdus, n_calls, n_last,
                    n_loop, n_in >>
    /\ UNCHANGED << gvars, pvars >>

\* send_pdu(transport_pdu, soft_ctx) on the network of the store's first record
SendPdu(transport_pdu, src, dst, name) ==
    /\ Len(n_calls) < MaxNetSends
    /\ n_nets # << >>
    /\ n_nets[1].name = name
    /\ LET soft_ctx == [src_addr |-> src, dst_addr |-> dst, network_name |-> name]
           r == send_pdu(transport_pdu, soft_ctx, hard_ctx, n_nets)
       IN  /\ send_queue' = IF r.exc = "none"
                            THEN Append(send_queue, [tag |-> "message_s", pdu |-> r.pdu])
                            ELSE send_queue
           /\ n_calls' = Append(n_calls,
                                [transport_pdu |-> transport_pdu, soft_ctx |-> soft_ctx,
                                 is_ctrl |-> hard_ctx.is_ctrl_msg, ttl |-> hard_ctx.ttl,
                                 mic_flag |-> hard_ctx.is_crtl_msg,
                                 seq |-> r.seq, record_seq |-> load(n_nets, name).seq,
                                 exc |-> r.exc, pdu |-> r.pdu])
    /\ UNCHANGED << n_nets, hard_ctx, recv_queue, transport_pdus, n_last, n_loop, n_in >>
    /\ UNCHANGED << gvars, pvars >>

\* A frame arrives on the inbound queue
PutInbound(frame) ==
    /\ n_in < MaxInbound
    /\ recv_queue' = Append(recv_queue, frame)
    /\ n_in' = n_in + 1
    /\ UNCHANGED << n_nets, hard_ctx, send_queue, transport_pdus, n_calls, n_last, n_loop >>
    /\ UNCHANGED << gvars, pvars >>

\* recv_pdu: the loop takes the next frame from recv_queue
RecvPdu ==
    /\ n_loop = "running"
    /\ recv_queue # << >>
    /\ LET frame == Head(recv_queue)
           r == recv_pdu(frame, n_nets, hard_ctx)
       IN  /\ recv_queue' = Tail(recv_queue)
           /\ hard_ctx' = r.hc
           /\ transport_pdus' = transport_pdus \o r.out
           /\ n_loop' = IF Continues(r.outcome) THEN "running" ELSE r.outcome
           /\ n_last' = [tag |-> frame.tag, pdu |-> frame.pdu, selected |-> r.selected,
                         outcome |-> r.outcome, before |-> Len(transport_pdus),
                         after |-> Len(transport_pdus \o r.out)]
    /\ UNCHANGED << n_nets, send_queue, n_calls, n_in >>
    /\ UNCHANGED << gvars, pvars >>

----------------------------------------------------------------------------
\* The layers that a specification does not drive stay as constructed
GIdle == GInit
NIdle ==
    /\ n_nets = << >>
    /\ hard_ctx = NewHardContext
    /\ send_queue = << >>
    /\ recv_queue = << >>
    /\ transport_pdus = << >>
    /\ n_calls = << >>
    /\ n_last = NoFrame
    /\ n_loop = "running"
    /\ n_in = 0
PIdle ==
    /\ dev = CHOOSE d \in Devices : TRUE
    /\ p_pc = "start"
    /\ p_st = NewCall
    /\ p_entry = NewCall
    /\ p_result = "running"

----------------------------------------------------------------------------
\* Specifications

GNext ==
    \/ \E L \in 1..MaxPayloadLen : SendStartTr(L)
    \/ StartCheckTrAck
    \/ \E i \in 1..MaxSends : CheckTrAckBegin(i)
    \/ \E i \in 1..MaxSends : CheckTrAckLoop(i)
    \/ SendContinuationTr
    \/ SendWaitAck
    \/ AckArrives
    \/ Tick
    \/ PeerRecv

GProvInit == GInit /\ PIdle /\ NIdle

GProvSpec == GProvInit /\ [][GNext]_vars

PNext == OpenLink \/ RunPhase \/ EndCall

ProvInit == PInit /\ GIdle /\ NIdle

ProvSpec == ProvInit /\ [][PNext]_vars

NNext ==
    \/ \E is_ctrl \in BOOLEAN : SetHardCtx(is_ctrl, 3, 7)
    \/ \E name \in Keys : SendPdu(<< 170, 187 >>, << 0, 1 >>, << 0, 2 >>, name)
    \/ \E frame \in InboundFrames : PutInbound(frame)
    \/ RecvPdu

NetInit == NInit /\ GIdle /\ PIdle

NetSpec == NetInit /\ [][NNext]_vars

----------------------------------------------------------------------------
\* Properties of provisioning_device (ProvSpec)

\* The reasons of the LINK_CLOSE frames of a trace, in order
LinkCloses(log) ==
    LET closes == SelectSeq(log, LAMBDA ev : ev.e = "link_close")
    IN  [i \in 1..Len(closes) |-> closes[i].pdu[1].n]

\* Number of transactions the provisioner sent
SentCount(log) == Len(SelectSeq(log, LAMBDA ev : ev.e = "send"))

\* A transaction of the trace timed out: it was sent and got no ACK
TimedOut(log) == \E i \in 1..Len(log) : log[i].e = "timeout"

\* The device answers every phase as the protocol says, up to and including
\* its random number, and acknowledges or answers every transaction before the
\* provisioning data
AnswersThroughRandom(d) ==
    /\ d.cap_opcode = PROVISIONING_CAPABILITIES
    /\ d.key_opcode = PROVISIONING_PUBLIC_KEY
    /\ d.conf_opcode = PROVISIONING_CONFIRMATION
    /\ d.random_opcode = PROVISIONING_RANDOM
    /\ d.timeout_at \notin 1..9

\* The device follows the protocol and ends with PROVISIONING_COMPLETE
FollowsProtocol(d) ==
    /\ AnswersThroughRandom(d)
    /\ d.confirmation = "genuine"
    /\ d.final_opcode = PROVISIONING_COMPLETE
    /\ d.timeout_at \notin 1..LastTransaction

\* C1: when the device answers every phase correctly and ends with
\* PROVISIONING_COMPLETE, the finished call has emitted exactly one LINK_CLOSE,
\* its reason is SUCCESS, and it comes after the PROVISIONING_COMPLETE received
C1_SuccessCloseAfterComplete ==
    (p_pc = "done" /\ FollowsProtocol(dev)) =>
        /\ LinkCloses(p_st.log) = << CLOSE_SUCCESS >>
        /\ \E i, j \in 1..Len(p_st.log) :
              /\ i < j
              /\ p_st.log[i].e = "recv"
              /\ p_st.log[i].pdu[1].n = PROVISIONING_COMPLETE
              /\ p_st.log[j].e = "link_close"

\* C2: when the confirmation the device sent is not the one recomputed from its
\* random number, the finished call has emitted LINK_CLOSE with reason FAIL,
\* has not sent the provisioning data (the sixth transaction it sends), and has
\* raised ProvisioningFail to its caller
C2_ConfirmationMismatchFails ==
    (p_pc = "done" /\ AnswersThroughRandom(dev) /\ dev.confirmation = "other") =>
        /\ LinkCloses(p_st.log) = << CLOSE_FAIL >>
        /\ SentCount(p_st.log) <= 5
        /\ p_result = "ProvisioningFail"

\* C3: when a transaction of any phase timed out, the finished call has closed
\* the link with reason TIMEOUT, as the last thing it did, and nothing else
\* closed the link. (A send without ACK ends the call with the error of the
\* GProv layer, which no handler of provisioning_device catches; a receive
\* without a frame never ends it.)
C3_TimeoutCloses ==
    (p_pc = "done" /\ TimedOut(p_st.log)) =>
        /\ LinkCloses(p_st.log) = << CLOSE_TIMEOUT >>
        /\ p_st.log[Len(p_st.log)].e = "link_close"
        /\ p_st.log[Len(p_st.log) - 1].e = "timeout"

----------------------------------------------------------------------------
\* Properties of GProvLayer (GProvSpec)

\* The number of frames of a transaction of L bytes: one START when L <= 20,
\* else one START and ceil((L - 20) / 23) CONTINUATIONs
FrameCount(L) ==
    IF L <= MAX_MTU_SIZE - 4 THEN 1
    ELSE ((L - (MAX_MTU_SIZE - 4)) + (MAX_MTU_SIZE - 2)) \div (MAX_MTU_SIZE - 1) + 1

\* The frames the last send call handed to pb_adv_layer.send
OwnFrames == SubSeq(g_bearer, g_tr.first + 1, Len(g_bearer))

\* C4: once send has put the frames of a payload of L >= 1 bytes on the bearer,
\* they are 1 frame when L <= 20 and ceil((L - 20) / 23) + 1 frames when L > 20
C4_FrameCount ==
    (g_pc = "waiting") => Len(OwnFrames) = FrameCount(g_tr.len)

\* C5: a send that ended with the ack-timeout error, no ACKNOWLEDGMENT having
\* been delivered, ended no earlier than 30 s and no later than 35 s after the
\* transaction started
C5_AckTimeoutWindow ==
    (g_tr.result = "NoAckException" /\ g_tr.ack_at = -1) =>
        /\ g_tr.end_ - g_tr.start >= AckLimit
        /\ g_tr.end_ - g_tr.start <= WaitLimit

\* C6: a send whose ACKNOWLEDGMENT reached the bearer within 30 s of the start
\* of the transaction has returned without raising
C6_AckInTimeSucceeds ==
    (/\ g_pc = "idle"
     /\ g_tr.result \in {"ok", "NoAckException"}
     /\ g_tr.ack_at # -1
     /\ g_tr.ack_at - g_tr.start < AckLimit) =>
        g_tr.result = "ok"

\* C7: once every frame send produced for a payload, the first transaction on
\* the bearer, has been delivered to the receive side, recv has yielded the
\* whole payload, as one value, and one ACKNOWLEDGMENT has been emitted on the
\* bearer for the transaction
C7_RecvReassembles ==
    (/\ g_pc \in {"waiting", "idle"}
     /\ g_bearer # << >>
     /\ g_tr.first = 0
     /\ g_rx_pos = Len(g_bearer)) =>
        /\ g_rx_out = << g_content >>
        /\ Len(g_rx_acks) = 1

----------------------------------------------------------------------------
\* Properties of NetworkLayer (NetSpec)

\* The frame the bearer delivers for a PDU taken from send_queue
AsInbound(pdu) == [tag |-> "message", pdu |-> pdu]

\* The records of the store whose nid is the one of the PDU's first byte
Matching(nets, pdu) ==
    {f \in 1..Len(nets) : gen_security_material(nets[f]).nid = pdu[1] % 128}

\* C8: every send_pdu call enqueued a PDU that recv_pdu, with the same store,
\* publishes with the call's transport_pdu, src and dst, leaving hard_ctx with
\* the call's seq and is_ctrl
C8_RoundTrip ==
    \A i \in 1..Len(n_calls) :
        LET c == n_calls[i]
            r == recv_pdu(AsInbound(c.pdu), n_nets, NewHardContext)
        IN  /\ c.exc = "none"
            /\ r.outcome = "published"
            /\ r.out[1].transport_pdu = c.transport_pdu
            /\ r.out[1].src_addr = c.soft_ctx.src_addr
            /\ r.out[1].dst_addr = c.soft_ctx.dst_addr
            /\ r.hc.seq.b = << from_bytes(c.seq.b) >>
            /\ r.hc.is_crtl_msg = (IF c.is_ctrl THEN "true" ELSE "false")

\* C9: of two successive send_pdu calls on one network both succeeded, each
\* with the seq of the network record at the time, and the second used the seq
\* of the first plus 1
C9_SeqAdvances ==
    \A i \in 1..(Len(n_calls) - 1) :
        LET c == n_calls[i]
            d == n_calls[i + 1]
        IN  (c.soft_ctx.network_name = d.soft_ctx.network_name) =>
                /\ c.exc = "none" /\ d.exc = "none"
                /\ from_bytes(c.seq.b) = c.record_seq
                /\ from_bytes(d.seq.b) = d.record_seq
                /\ from_bytes(d.seq.b) = from_bytes(c.seq.b) + 1

\* C10: for the last PDU the loop took from the 'message' channel, the record
\* it went on with is one whose nid is pdu[0] & 0x7F; a record was found
\* whenever the store has one with that nid; and when it has none the PDU was
\* dropped and nothing was put on transport_pdus
C10_SelectsByNid ==
    (n_last.tag = "message" /\ n_last.pdu # << >>) =>
        LET matching == Matching(n_nets, n_last.pdu)
        IN  /\ n_last.selected # 0 => n_last.selected \in matching
            /\ matching # {} => n_last.selected # 0
            /\ matching = {} =>
                  /\ n_last.selected = 0
                  /\ n_last.outcome = "no_network"
                  /\ n_last.after = n_last.before
                  /\ n_loop = "running"

\* C10, the cases reached: the record found is the second of the store, the
\* first having another nid
C10_Witness ==
    /\ n_last.tag = "message"
    /\ n_last.pdu # << >>
    /\ n_last.selected = 2
    /\ 1 \notin Matching(n_nets, n_last.pdu)

\* The plaintext of a CCM ciphertext (without its MIC) under key and nonce
ccm_text(key, nonce, ciphertext) ==
    LET sum == Sum(key) + Sum(nonce)
    IN  [i \in 1..Len(ciphertext) |-> (ciphertext[i] + 768 - sum - i) % 256]

\* The MIC the PDU carries is the CCM MIC computed with the network's
\* encryption key and the network nonce rebuilt from the PDU: the header
\* cleared with the PECB of bytes 7..14, the MIC of 8 bytes when the ctl bit of
\* the cleared header is set and of 4 otherwise
MicVerifies(net_data, pdu) ==
    /\ Len(pdu) >= 14
    /\ LET sm == gen_security_material(net_data)
           pecb == e(sm.privacy_key,
                     Zeros(5) \o net_data.iv_index \o Slice(pdu, 7, 14))
           header == xor(Slice(pdu, 1, 7), Slice(pecb, 0, 6))
           mic_len == IF header[1] >= 128 THEN 8 ELSE 4
           net_nonce == << 0 >> \o header \o << 0, 0 >> \o net_data.iv_index
           encrypted == DropLast(Slice(pdu, 7, Len(pdu)), mic_len)
           text == ccm_text(sm.encryption_key, net_nonce, encrypted)
       IN  /\ Len(pdu) >= 9 + mic_len
           /\ LastBytes(pdu, mic_len)
                = LastBytes(aes_ccm_net(sm.encryption_key, net_nonce, text).val, mic_len)

\* C11: the last PDU the loop took from the 'message' channel for an installed
\* network was put on transport_pdus only if the MIC it carries is the CCM MIC
\* computed with that network's encryption key and the rebuilt nonce; a PDU
\* whose MIC is another one, as the PDU of a peer with a bit flipped after its
\* first byte, was not put there
C11_MicDecides ==
    (n_last.tag = "message" /\ n_last.selected # 0) =>
        (n_last.after # n_last.before =>
            MicVerifies(n_nets[n_last.selected], n_last.pdu))

\* C11, the case reached: the loop has taken the PDU of a peer with a bit of
\* its MIC flipped, for the network of key 2; the MIC is not the one computed
\* and nothing was put on transport_pdus
C11_Witness ==
    /\ n_last.tag = "message"
    /\ n_last.selected # 0
    /\ n_last.pdu = TamperedPdu
    /\ ~MicVerifies(n_nets[n_last.selected], n_last.pdu)
    /\ n_last.after = n_last.before

\* C20: the receive loop is running after every frame it took, whatever the
\* frame was: one of another channel, one whose nid matches no network, one
\* whose MIC does not verify, one too short
C20_LoopNeverStops ==
    n_loop = "running"

----------------------------------------------------------------------------
\* Further properties of provisioning_device (ProvSpec)

\* The PDUs of the transactions the provisioner sent, in order
SentPdus(log) ==
    LET sends == SelectSeq(log, LAMBDA ev : ev.e = "send")
    IN  [i \in 1..Len(sends) |-> sends[i].pdu]

\* The opcodes of the PDUs a provisioner sends in a complete session
SendOpcodes ==
    << PROVISIONING_INVITE, PROVISIONING_START, PROVISIONING_PUBLIC_KEY,
       PROVISIONING_CONFIRMATION, PROVISIONING_RANDOM, PROVISIONING_DATA >>

\* C13: however the call ended, it emitted exactly one LINK_CLOSE on the link
\* it had opened
C13_ExactlyOneLinkClose ==
    (p_pc = "done") => Len(LinkCloses(p_st.log)) = 1

\* C17: in a session with a device that follows the protocol the provisioner
\* has sent its six PDUs, each beginning with the opcode of its type: invite
\* 0x00, start 0x02, public key 0x03, confirmation 0x05, random 0x06, data 0x07
C17_OpcodeFirst ==
    (p_pc = "done" /\ FollowsProtocol(dev)) =>
        LET sent == SentPdus(p_st.log)
        IN  /\ Len(sent) = Len(SendOpcodes)
            /\ \A i \in 1..Len(sent) : sent[i][1] = Lit(SendOpcodes[i])

\* C19: once the public keys are exchanged, the ECDH secret the provisioner
\* keeps is the point the device computes from its private key and the
\* provisioner's public key
C19_SharedSecret ==
    (p_st.s.ecdh_secret.x # << >>) =>
        p_st.s.ecdh_secret = EcdhPoint(DeviceKey, ProvisionerKey)

\* The transactions of a trace that took place: PDUs sent and PDUs received
Transactions(log) == SelectSeq(log, LAMBDA ev : ev.e \in {"send", "recv"})

\* The direction of the transactions of a complete session, in order
Direction ==
    << "send", "recv", "send", "send", "recv", "send", "recv", "send", "recv",
       "send", "recv" >>

\* The opcode the reply received as transaction number i should carry
ExpectedReply(i) ==
    CASE i = 2 -> PROVISIONING_CAPABILITIES
      [] i = 5 -> PROVISIONING_PUBLIC_KEY
      [] i = 7 -> PROVISIONING_CONFIRMATION
      [] i = 9 -> PROVISIONING_RANDOM
      [] OTHER -> PROVISIONING_COMPLETE

\* The reply received as transaction number i is not the one expected there
WrongReply(t, i) ==
    /\ t[i].e = "recv"
    /\ \/ t[i].pdu[1].n = PROVISIONING_FAILED
       \/ t[i].pdu[1].n # ExpectedReply(i)

\* C16: the transactions made so far are the first ones of the sequence send
\* INVITE, receive CAPABILITIES, send START, send PUBLIC_KEY, receive
\* PUBLIC_KEY, send, receive, send, receive, send, receive; a transaction
\* follows a reply only if that reply carried the expected opcode, and nothing
\* follows a transaction that timed out
C16_PhaseOrder ==
    LET t == Transactions(p_st.log)
        log == p_st.log
    IN  /\ Len(t) <= Len(Direction)
        /\ \A i \in 1..Len(t) : t[i].e = Direction[i]
        /\ Len(t) >= 1 => t[1].pdu[1] = Lit(PROVISIONING_INVITE)
        /\ Len(t) >= 3 => t[3].pdu[1] = Lit(PROVISIONING_START)
        /\ Len(t) >= 4 => t[4].pdu[1] = Lit(PROVISIONING_PUBLIC_KEY)
        /\ \A i \in 1..(Len(t) - 1) : ~WrongReply(t, i)
        /\ \A i \in 1..Len(log) : \A j \in (i + 1)..Len(log) :
              log[i].e = "timeout" => log[j].e \notin {"send", "recv"}

\* C16, the case reached: invitation and public-key exchange have run, five
\* transactions, the last one the device's public key
C16_Witness ==
    LET t == Transactions(p_st.log)
    IN  /\ Len(t) = 5
        /\ t[5].e = "recv"
        /\ t[5].pdu[1] = Lit(PROVISIONING_PUBLIC_KEY)
        /\ t[2].pdu[1] = Lit(PROVISIONING_CAPABILITIES)

\* C18: when a reply carried PROVISIONING_FAILED or an opcode other than the
\* expected one, the finished call has emitted LINK_CLOSE with reason FAIL,
\* once, and that reply was its last transaction
C18_WrongOpcodeFails ==
    LET t == Transactions(p_st.log)
    IN  (p_pc = "done" /\ \E i \in 1..Len(t) : WrongReply(t, i)) =>
            /\ LinkCloses(p_st.log) = << CLOSE_FAIL >>
            /\ WrongReply(t, Len(t))
            /\ p_st.log[Len(p_st.log)].e = "link_close"
            /\ p_st.log[Len(p_st.log) - 1].e = "recv"

\* C18, the case reached: the device answers the public key with
\* PROVISIONING_FAILED and the call ends after LINK_CLOSE with reason FAIL
C18_Witness ==
    LET t == Transactions(p_st.log)
    IN  /\ p_pc = "done"
        /\ Len(t) = 5
        /\ t[5].pdu[1] = Lit(PROVISIONING_FAILED)
        /\ LinkCloses(p_st.log) = << CLOSE_FAIL >>

----------------------------------------------------------------------------
\* Further properties of GProvLayer (GProvSpec)

\* Type and index field (seg_n, seg_index) of a frame on the bearer
FrameType(frame) == decode_gprov_message(frame).type_
FrameIndex(frame) == decode_gprov_message(frame).msg_params.index
FrameContent(frame) == decode_gprov_message(frame).msg_params.content

\* The contents of frames first..last of a sequence of frames, one after another
RECURSIVE ContentsFrom(_, _)
ContentsFrom(frames, first) ==
    IF first > Len(frames) THEN << >>
    ELSE FrameContent(frames[first]) \o ContentsFrom(frames, first + 1)

\* C14: the first frame a send put on the bearer is the START, the frames
\* after it are CONTINUATIONs with seg_index 1, 2, 3, ... in this order, and
\* once send has sent them, also after it ended without ACK, it has put
\* each frame on the bearer once: the START and one CONTINUATION per segment
C14_FrameOrder ==
    /\ OwnFrames # << >> => FrameType(OwnFrames[1]) = START
    /\ \A i \in 2..Len(OwnFrames) :
          /\ FrameType(OwnFrames[i]) = CONTINUATION
          /\ FrameIndex(OwnFrames[i]) = i - 1
    /\ (g_pc \in {"waiting", "idle"} /\ OwnFrames # << >>) =>
          Len(OwnFrames) = 1 + Len(g_segs)

\* C14, the case reached: a send of a START and three CONTINUATIONs ended
\* without ACK
C14_Witness ==
    /\ g_pc = "idle"
    /\ g_tr.result = "NoAckException"
    /\ Len(OwnFrames) = 4
    /\ FrameIndex(OwnFrames[4]) = 3

\* C15: in the frames of a transaction the START's seg_n is the seg_index of
\* the last CONTINUATION (0 without one), its total_length is the length of
\* the payload, the START has at most 20 bytes of content and a CONTINUATION
\* at most 23, and the contents in order are the payload
C15_StartFields ==
    (g_pc \in {"waiting", "idle"} /\ OwnFrames # << >>) =>
        LET start == decode_gprov_message(OwnFrames[1]).msg_params
            n == Len(OwnFrames)
        IN  /\ start.index = (IF n = 1 THEN 0 ELSE FrameIndex(OwnFrames[n]))
            /\ start.total_length = Len(g_content)
            /\ Len(start.content) <= MAX_MTU_SIZE - 4
            /\ \A i \in 2..n : Len(FrameContent(OwnFrames[i])) <= MAX_MTU_SIZE - 1
            /\ ContentsFrom(OwnFrames, 1) = g_content

\* C15, the case reached: a payload of 60 bytes went out as a START with
\* seg_n = 2 and 20 bytes, a CONTINUATION of 23 bytes and one of 17 bytes
C15_Witness ==
    /\ g_pc = "waiting"
    /\ Len(g_content) = 60
    /\ Len(OwnFrames) = 3
    /\ FrameIndex(OwnFrames[1]) = 2
    /\ Len(FrameContent(OwnFrames[1])) = 20
    /\ Len(FrameContent(OwnFrames[2])) = 23
    /\ Len(FrameContent(OwnFrames[3])) = 17

----------------------------------------------------------------------------
\* Further properties of NetworkLayer (NetSpec)

\* Length of the MIC of the PDU a send_pdu call enqueued: what follows the
\* ivi|nid byte, the 6 header bytes, the 2 bytes of the encrypted destination
\* and the encrypted transport PDU
MicLength(c) == Len(c.pdu) - 1 - 6 - 2 - Len(c.transport_pdu)

\* C21: in every send_pdu call the flag that selects the MIC length is the
\* flag that sets the CTL bit, and the PDU the call enqueued has a MIC of 8
\* bytes when the CTL bit of its header and nonce is set and of 4 bytes
\* otherwise
C21_MicLengthFollowsCtl ==
    \A i \in 1..Len(n_calls) :
        LET c == n_calls[i]
        IN  /\ c.mic_flag = (IF c.is_ctrl THEN "true" ELSE "false")
            /\ c.exc = "none" => MicLength(c) = (IF c.is_ctrl THEN 8 ELSE 4)

\* What a send_pdu call takes from hard_ctx for its PDU (lines 75-77): the ctl
\* flag, the ttl and the seq
SendContext(hc) ==
    [ctl |-> IF hc.is_ctrl_msg THEN 128 ELSE 0, ttl |-> hc.ttl % 128, seq |-> hc.seq]

----------------------------------------------------------------------------
\* Further properties of GProvLayer (GProvSpec)

\* The __check_tr_ack thread the last send call started is still running: it
\* has set no event yet
OwnWatcherRunning ==
    \E i \in 1..Len(g_watchers) : g_watchers[i].tr = g_sends

\* C23: a send that has ended returned without raising only if the
\* ACKNOWLEDGMENT of its own transaction was delivered, and ended only once
\* the watcher of its own transaction had reported, whatever the events an
\* earlier transaction left set
C23_OwnAckDecides ==
    (g_pc = "idle" /\ g_tr.result \in {"ok", "NoAckException"}) =>
        /\ g_tr.result = "ok" => g_tr.ack_at # -1
        /\ ~OwnWatcherRunning

====
